---- MODULE Spec2Model ----
(***************************************************************************)
(* Model of 2048-scoreproof-backend/src/index.ts: one Node process, a      *)
(* SQLite store with the tables scores and proofs, and the three routes    *)
(* GET /scores, GET /proofs and POST /scores/proof.                        *)
(*                                                                         *)
(* JavaScript runs a handler to completion between two awaits, so the      *)
(* variable running names the handler that is executing synchronous code   *)
(* (0 when the event loop is idle); only an idle event loop starts or      *)
(* resumes a handler.  The POST handler has one await (the verifier), so   *)
(* it is cut into the part before it (Post) and the statements after it.   *)
(***************************************************************************)
EXTENDS Integers, Sequences, FiniteSets, TLC

\* ------------------------------------------------------------- bounds
MaxReq == 2      \* POST /scores/proof requests over a behaviour
MaxClock == 1    \* CURRENT_TIMESTAMP takes the values 0..MaxClock
MaxRestart == 1  \* restarts of the process after its first start

VARIABLES
  phase,     \* "down" | "up": whether the process runs (initDb done, listening)
  scores,    \* table scores: a set of rows [score, count]
  proofs,    \* table proofs: a set of rows [proofId, proof, score, created_at]
  req,       \* the POST requests so far, in order of arrival (a sequence of records)
  running,   \* index in req of the handler executing synchronous code, or 0
  clock,     \* the store's CURRENT_TIMESTAMP when it was last read
  boots,     \* number of restarts so far
  sent       \* what the latest step wrote to a GET client (route, rows), or NoBody

vars == <<phase, scores, proofs, req, running, clock, boots, sent>>

\* ------------------------------------------------------------- values
NoFile == <<"<no file>">>
NoBody == [route |-> "", rows |-> <<>>]
\* verify2048Proof's identifier when it is missing (undefined / null)
MissingId == "<missing>"
\* a JavaScript number: an integer or NaN
Num(n) == [nan |-> FALSE, v |-> n]
NaN == [nan |-> TRUE, v |-> 0]

\* uploaded files: a sequence of characters; "a" and "b" stand for two JSON
\* documents, "x" for text that is not JSON, " " for white space
Files == { NoFile, <<" ", "a", " ">>, <<"b">>, <<"x", " ">> }
\* how verify2048Proof can settle on a proof (./zk is not part of the
\* sources): it throws, or it returns an identifier and a score, where the
\* identifier may be missing and the score may be the sentinel -1 or NaN.
\* The same identifier can come back for two different uploads.
Throws == <<"throw">>
verify2048Proof(content) ==
  IF content = <<"a">>
    THEN { Throws, <<MissingId, Num(2)>>, <<"p2", NaN>>, <<"p1", Num(2)>> }
    ELSE { <<"", Num(3)>>, <<"p1", Num(-1)>>, <<"p1", Num(3)>>, <<"p2", Num(2)>> }

\* ------------------------------------------------------------- seed
initialScores ==
  << [score |-> 131072, count |-> 0],
     [score |-> 65536, count |-> 0],
     [score |-> 32768, count |-> 0],
     [score |-> 16384, count |-> 0],
     [score |-> 8192, count |-> 0],
     [score |-> 4096, count |-> 0],
     [score |-> 2048, count |-> 0],
     [score |-> 1024, count |-> 0],
     [score |-> 512, count |-> 0],
     [score |-> 256, count |-> 0],
     [score |-> 128, count |-> 0],
     [score |-> 64, count |-> 0],
     [score |-> 32, count |-> 0],
     [score |-> 16, count |-> 0],
     [score |-> 8, count |-> 0],
     [score |-> 4, count |-> 0],
     [score |-> 2, count |-> 0] >>

\* ------------------------------------------------------------- store
\* SELECT score, count FROM scores WHERE score = ?
\* (a NaN parameter is bound as NULL, which equals no row)
SelectScoreRow(sc, s) == IF s.nan THEN {} ELSE { row \in sc : row.score = s.v }

\* SELECT proofId FROM proofs WHERE proofId = ?
SelectProof(pr, id) == { row \in pr : row.proofId = id }

\* proofs: proofId TEXT PRIMARY KEY, score INTEGER NOT NULL
\* (the INSERT throws on a proofId the table holds, and on a NULL score)
InsertProofFails(pr, id, s) == s.nan \/ \E row \in pr : row.proofId = id

\* INSERT INTO proofs (proofId, proof, score) VALUES (?, ?, ?)
\* created_at takes its default, CURRENT_TIMESTAMP
InsertProofRow(pr, id, content, s, now) ==
  pr \cup { [proofId |-> id, proof |-> content, score |-> s.v, created_at |-> now] }

\* scores: score INTEGER PRIMARY KEY, count INTEGER NOT NULL
InsertScoreFails(sc, s) == s.nan \/ \E row \in sc : row.score = s.v

\* the INSERT with count 0 in place of its parameter
InsertScoreRowZero(sc, s, c) == sc \cup { [score |-> s, count |-> 0] }

\* INSERT INTO scores (score, count) VALUES (@score, @count)
InsertScoreRow(sc, s, c) == sc \cup { [score |-> s, count |-> c] }

\* the UPDATE with - in place of +
DecrementCount(sc, s) ==
  { IF ~s.nan /\ row.score = s.v
      THEN [row EXCEPT !.count = row.count - 1]
      ELSE row : row \in sc }

\* the UPDATE without its WHERE clause
IncrementCountNoWhere(sc, s) == { [row EXCEPT !.count = row.count + 1] : row \in sc }

\* UPDATE scores SET count = count + 1 WHERE score = ?
IncrementCount(sc, s) ==
  { IF ~s.nan /\ row.score = s.v
      THEN [row EXCEPT !.count = row.count + 1]
      ELSE row : row \in sc }

\* the seeding loop stopping before the last item
RECURSIVE insertManyButLast(_, _)
insertManyButLast(sc, items) ==
  IF Len(items) <= 1 THEN sc
  ELSE insertManyButLast(InsertScoreRow(sc, Head(items).score, Head(items).count),
                         Tail(items))

\* insertMany(initialScores): the transaction inserting the items in order
RECURSIVE insertMany(_, _)
insertMany(sc, items) ==
  IF items = <<>> THEN sc
  ELSE insertMany(InsertScoreRow(sc, Head(items).score, Head(items).count),
                  Tail(items))

\* the seeding without the test for an empty table: the ladder written anew
SeedAlways(sc) == insertMany({}, initialScores)

\* the seeding loop starting at the second item
SeedIfEmptyFromSecond(sc) ==
  IF Cardinality(sc) = 0 THEN insertMany(sc, Tail(initialScores)) ELSE sc

\* SELECT COUNT(*) FROM scores; seed when it is 0
SeedIfEmpty(sc) == IF Cardinality(sc) = 0 THEN insertMany(sc, initialScores) ELSE sc

\* the table dropped and created again
DropAndCreateProofs(pr) == {}

\* CREATE TABLE IF NOT EXISTS proofs: an existing table keeps its rows
CreateProofsIfNotExists(pr) == pr

\* initDb(): both CREATE TABLE IF NOT EXISTS statements, then the seeding
initDb(sc, pr) == [scores |-> SeedIfEmpty(sc), proofs |-> CreateProofsIfNotExists(pr)]

\* ------------------------------------------------------------- text
\* String.prototype.trim on the upload's text
RECURSIVE TrimStart(_)
TrimStart(s) == IF s # <<>> /\ Head(s) = " " THEN TrimStart(Tail(s)) ELSE s
RECURSIVE TrimEnd(_)
TrimEnd(s) ==
  IF s # <<>> /\ s[Len(s)] = " " THEN TrimEnd(SubSeq(s, 1, Len(s) - 1)) ELSE s
Trim(s) == TrimEnd(TrimStart(s))

\* JSON.parse(content) returns (TRUE) or throws (FALSE)
JsonParses(content) == content \in { <<"a">>, <<"b">> }

\* !proofId
Falsy(id) == id \in { MissingId, "" }

\* the test without parsedScore == -1
IsInvalidNoSentinel(id, s) == Falsy(id) \/ s.nan

\* the test without isNaN
IsInvalidNoNaN(id, s) == Falsy(id) \/ (~s.nan /\ s.v = -1)

\* !proofId || parsedScore == -1 || isNaN(parsedScore)
IsInvalid(id, s) == Falsy(id) \/ (~s.nan /\ s.v = -1) \/ s.nan

\* ------------------------------------------------------------- responses
NoFileResponse == <<400, "No proof file uploaded">>
InvalidResponse == <<400, "Invalid proof data">>
DuplicateResponse == <<400, "Proof already submitted">>
FailureResponse == <<500, "Failed to process proof">>
SuccessResponse(s) == <<201, "Proof verified and score updated", s>>

\* ------------------------------------------------------------- requests
\* a request's record: pc, the upload, the handler's locals (content, the
\* verifier's result vres, scoreRow), the responses sent on it, and what an
\* observer records: trace, what its handler did, in order; conc, the
\* requests that were suspended at the verifier when this one suspended
\* there; pre, the two tables as they were when the verifier returned
NoTables == [proofs |-> {}, scores |-> {}]
NewRequest(f) ==
  [pc |-> "start", file |-> f, content |-> NoFile, vres |-> <<>>,
   scoreRow |-> FALSE, resp |-> <<>>, trace |-> <<>>, conc |-> {},
   pre |-> NoTables]

Reqs == DOMAIN req
ProofIdOf(q) == q.vres[2]
ScoreOf(q) == q.vres[3]
Awaiting == { i \in Reqs : req[i].pc = "await" }

\* the event loop: it is idle, or handler r holds it.  better-sqlite3 is
\* synchronous, so a handler that has resumed keeps the loop until it returns
Idle == running = 0
Turn(r) == running = r \/ (Idle /\ req[r].pc \notin { "await", "done", "lost" })
YieldAlways(q, r) == 0
Yield(q, r) == IF q.pc = "done" THEN 0 ELSE r

\* res.status(..).json(..) followed by return (or by the end of the handler)
Finish(q, response) ==
  [q EXCEPT !.pc = "done", !.resp = Append(@, response),
            !.trace = Append(@, "respond")]

\* a catch that logs and sends nothing
CatchSilent(q) == [q EXCEPT !.pc = "done"]

\* an exception inside try: caught at line 197, answered 500
Catch(q) == Finish(q, FailureResponse)

\* one statement of the handler done, the next one is at pc
Goto(q, event, pc) == [q EXCEPT !.pc = pc, !.trace = Append(@, event)]

Init ==
  /\ phase = "down"
  /\ scores = {}
  /\ proofs = {}
  /\ req = <<>>
  /\ Idle
  /\ clock = 0
  /\ boots = 0
  /\ sent = NoBody

\* node starts: initDb() at module load, then app.listen
Boot ==
  /\ phase = "down"
  /\ scores' = initDb(scores, proofs).scores
  /\ proofs' = initDb(scores, proofs).proofs
  /\ phase' = "up"
  /\ sent' = NoBody
  /\ UNCHANGED <<req, running, clock, boots>>

\* the process is stopped between two turns of the event loop and started
\* again: the handlers suspended at the verifier are lost with it, the store
\* stays on disk and initDb() runs on it
Restart ==
  /\ phase = "up"
  /\ Idle
  /\ boots < MaxRestart
  /\ req' = [i \in Reqs |->
               IF req[i].pc = "await" THEN [req[i] EXCEPT !.pc = "lost"] ELSE req[i]]
  /\ scores' = initDb(scores, proofs).scores
  /\ proofs' = initDb(scores, proofs).proofs
  /\ boots' = boots + 1
  /\ sent' = NoBody
  /\ UNCHANGED <<phase, running, clock>>

\* a second passes on the store's clock
Tick ==
  /\ clock < MaxClock
  /\ clock' = clock + 1
  /\ sent' = NoBody
  /\ UNCHANGED <<phase, scores, proofs, req, running, boots>>

\* the handler without the test of req.file: reading req.file.buffer throws
PostStartNoFileCheck(f) ==
  LET q == NewRequest(f)
      content == Trim(f)
  IN IF f = NoFile \/ ~JsonParses(content)
       THEN Catch([q EXCEPT !.content = content])
       ELSE [Goto(q, "verify", "await") EXCEPT !.content = content,
                                               !.conc = Awaiting]

\* POST /scores/proof up to the await of verify2048Proof (lines 131-151)
PostStart(f) ==
  LET q == NewRequest(f)
      content == Trim(f)
  IN IF f = NoFile
       THEN Finish(q, NoFileResponse)
       ELSE IF ~JsonParses(content)
         THEN Catch([q EXCEPT !.content = content])
         ELSE [Goto(q, "verify", "await") EXCEPT !.content = content,
                                                 !.conc = Awaiting]

Post(f) ==
  /\ phase = "up"
  /\ Idle
  /\ Len(req) < MaxReq
  /\ req' = Append(req, PostStart(f))
  /\ sent' = NoBody
  /\ UNCHANGED <<phase, scores, proofs, running, clock, boots>>

\* the verifier's promise rejects: await throws inside try
VerifierThrows(r) ==
  /\ phase = "up"
  /\ Idle
  /\ req[r].pc = "await"
  /\ Throws \in verify2048Proof(req[r].content)
  /\ req' = [req EXCEPT ![r] = Catch([req[r] EXCEPT !.vres = <<"throw">>])]
  /\ sent' = NoBody
  /\ UNCHANGED <<phase, scores, proofs, running, clock, boots>>

\* the handler once the verifier has returned [id, s]: the validity test of
\* lines 153-156
AfterVerify(q, id, s) ==
  LET q1 == [q EXCEPT !.vres = <<"ok", id, s>>]
  IN IF IsInvalid(id, s) THEN Finish(q1, InvalidResponse)
     ELSE [q1 EXCEPT !.pc = "checkDup"]

\* the verifier's promise resolves with [id, s] and the handler resumes
VerifierReturns(r, id, s) ==
  /\ phase = "up"
  /\ Idle
  /\ req[r].pc = "await"
  /\ <<id, s>> \in verify2048Proof(req[r].content)
  /\ req' = [req EXCEPT ![r] =
               [AfterVerify(req[r], id, s) EXCEPT
                  !.pre = [proofs |-> proofs, scores |-> scores]]]
  /\ running' = Yield(req'[r], r)
  /\ sent' = NoBody
  /\ UNCHANGED <<phase, scores, proofs, clock, boots>>

\* the existence check answering 400 without the return after it
AfterCheckDupNoReturn(q, pr) ==
  IF SelectProof(pr, ProofIdOf(q)) # {}
    THEN [Goto(q, "selectProof", "insertProof")
            EXCEPT !.resp = Append(@, DuplicateResponse)]
    ELSE Goto(q, "selectProof", "insertProof")

\* the existence check with its result ignored
AfterCheckDupIgnored(q, pr) == Goto(q, "selectProof", "insertProof")

\* the existence check followed by the scores statements, the INSERT INTO
\* proofs left out
AfterCheckDupNoInsert(q, pr) ==
  IF SelectProof(pr, ProofIdOf(q)) # {}
    THEN Finish(Goto(q, "selectProof", "checkDup"), DuplicateResponse)
    ELSE Goto(q, "selectProof", "selectScore")

\* lines 158-166: the existence check
AfterCheckDup(q, pr) ==
  IF SelectProof(pr, ProofIdOf(q)) # {}
    THEN Finish(Goto(q, "selectProof", "checkDup"), DuplicateResponse)
    ELSE Goto(q, "selectProof", "insertProof")

CheckDup(r) ==
  /\ Turn(r)
  /\ req[r].pc = "checkDup"
  /\ req' = [req EXCEPT ![r] = AfterCheckDup(req[r], proofs)]
  /\ running' = Yield(req'[r], r)
  /\ sent' = NoBody
  /\ UNCHANGED <<phase, scores, proofs, clock, boots>>

\* lines 168-173: the proof row
InsertProof(r) ==
  /\ Turn(r)
  /\ req[r].pc = "insertProof"
  /\ IF InsertProofFails(proofs, ProofIdOf(req[r]), ScoreOf(req[r]))
       THEN /\ req' = [req EXCEPT ![r] = Catch(Goto(req[r], "storeError", "insertProof"))]
            /\ running' = 0
            /\ UNCHANGED proofs
       ELSE /\ proofs' = InsertProofRow(proofs, ProofIdOf(req[r]), req[r].content,
                                        ScoreOf(req[r]), clock)
            /\ req' = [req EXCEPT ![r] = Goto(req[r], "insertProof", "selectScore")]
            /\ running' = Yield(req'[r], r)
  /\ sent' = NoBody
  /\ UNCHANGED <<phase, scores, clock, boots>>

\* lines 179-181: the scores row of parsedScore
SelectScore(r) ==
  /\ Turn(r)
  /\ req[r].pc = "selectScore"
  /\ req' = [req EXCEPT ![r] =
               [Goto(req[r], "selectScore", "writeScore") EXCEPT
                  !.scoreRow = SelectScoreRow(scores, ScoreOf(req[r])) # {}]]
  /\ running' = Yield(req'[r], r)
  /\ sent' = NoBody
  /\ UNCHANGED <<phase, scores, proofs, clock, boots>>

\* lines 183-193: increment the row, or create it with count 1
WriteScore(r) ==
  /\ Turn(r)
  /\ req[r].pc = "writeScore"
  /\ IF req[r].scoreRow
       THEN /\ scores' = IncrementCount(scores, ScoreOf(req[r]))
            /\ req' = [req EXCEPT ![r] = Goto(req[r], "updateScore", "respond")]
            /\ running' = Yield(req'[r], r)
       ELSE IF InsertScoreFails(scores, ScoreOf(req[r]))
         THEN /\ req' = [req EXCEPT ![r] = Catch(Goto(req[r], "storeError", "writeScore"))]
              /\ running' = 0
              /\ UNCHANGED scores
         ELSE /\ scores' = InsertScoreRow(scores, ScoreOf(req[r]).v, 1)
              /\ req' = [req EXCEPT ![r] = Goto(req[r], "insertScore", "respond")]
              /\ running' = Yield(req'[r], r)
  /\ sent' = NoBody
  /\ UNCHANGED <<phase, proofs, clock, boots>>

\* line 196: the success response
Respond(r) ==
  /\ Turn(r)
  /\ req[r].pc = "respond"
  /\ req' = [req EXCEPT ![r] = Finish(req[r], SuccessResponse(ScoreOf(req[r])))]
  /\ running' = 0
  /\ sent' = NoBody
  /\ UNCHANGED <<phase, scores, proofs, clock, boots>>

\* the store statement the handler is about to run throws (disk full, I/O
\* error, database locked): caught at line 197, answered 500
StoreFails(r) ==
  /\ Turn(r)
  /\ req[r].pc \in { "checkDup", "insertProof", "selectScore", "writeScore" }
  /\ req' = [req EXCEPT ![r] = Catch(Goto(req[r], "storeError", req[r].pc))]
  /\ running' = 0
  /\ sent' = NoBody
  /\ UNCHANGED <<phase, scores, proofs, clock, boots>>

\* ------------------------------------------------------------- reads
\* ORDER BY score ASC
RECURSIVE OrderByScoreAsc(_)
OrderByScoreAsc(rows) ==
  IF rows = {} THEN <<>>
  ELSE LET low == CHOOSE x \in rows : \A y \in rows : y.score >= x.score
       IN <<low>> \o OrderByScoreAsc(rows \ {low})

\* ORDER BY score DESC
RECURSIVE OrderByScoreDesc(_)
OrderByScoreDesc(rows) ==
  IF rows = {} THEN <<>>
  ELSE LET top == CHOOSE x \in rows : \A y \in rows : y.score <= x.score
       IN <<top>> \o OrderByScoreDesc(rows \ {top})

\* ORDER BY created_at DESC: any order of the rows that does not increase in
\* created_at (rows of the same second come in an order SQLite chooses)
OrdersByCreatedAtDesc(rows) ==
  { s \in [1..Cardinality(rows) -> rows] :
      /\ \A i, j \in DOMAIN s : i < j => s[i] # s[j]
      /\ \A i, j \in DOMAIN s : i < j => s[i].created_at >= s[j].created_at }

\* GET /scores
GetScores ==
  /\ phase = "up"
  /\ Idle
  /\ sent' = [route |-> "/scores", rows |-> OrderByScoreDesc(scores)]
  /\ UNCHANGED <<phase, scores, proofs, req, running, clock, boots>>

\* GET /proofs
GetProofs ==
  /\ phase = "up"
  /\ Idle
  /\ \E s \in OrdersByCreatedAtDesc(proofs) : sent' = [route |-> "/proofs", rows |-> s]
  /\ UNCHANGED <<phase, scores, proofs, req, running, clock, boots>>

\* ------------------------------------------------------------- behaviours
Handler(r) ==
  \/ CheckDup(r)
  \/ InsertProof(r)
  \/ SelectScore(r)
  \/ WriteScore(r)
  \/ Respond(r)

\* submissions alone
Next ==
  \/ Boot
  \/ \E f \in Files : Post(f)
  \/ \E r \in Reqs : VerifierThrows(r)
  \/ \E r \in Reqs : \E v \in verify2048Proof(req[r].content) \ {Throws} :
       VerifierReturns(r, v[1], v[2])
  \/ \E r \in Reqs : Handler(r)

\* the store never fails, the process runs on
Spec == Init /\ [][Next]_vars

\* store statements may fail
NextFault == Next \/ \E r \in Reqs : StoreFails(r)

SpecFault == Init /\ [][NextFault]_vars

\* submissions, reads and restarts
NextOps ==
  \/ Next
  \/ Restart
  \/ GetScores
  \/ GetProofs

SpecOps == Init /\ [][NextOps]_vars

\* the verifier's promise of request r settles
Settles(r) ==
  /\ r \in Reqs
  /\ \/ VerifierThrows(r)
     \/ \E v \in verify2048Proof(req[r].content) \ {Throws} :
          VerifierReturns(r, v[1], v[2])

\* the handler of request r runs its next statement, which returns or throws
Runs(r) ==
  /\ r \in Reqs
  /\ (Handler(r) \/ StoreFails(r))

\* every pending promise settles, and the event loop resumes every handler
\* whose promise has settled and runs it to its end
Fairness == \A r \in 1..MaxReq : WF_vars(Settles(r)) /\ WF_vars(Runs(r))

SpecLive == Init /\ [][NextFault]_vars /\ Fairness

\* submissions and restarts, store statements may fail
NextFaultRestart == NextFault \/ Restart

SpecFaultRestart == Init /\ [][NextFaultRestart]_vars

\* submissions and reads as the store's clock advances
NextRead ==
  \/ Next
  \/ Tick
  \/ GetScores
  \/ GetProofs

SpecRead == Init /\ [][NextRead]_vars

\* ------------------------------------------------------------- claims
\* what the claims speak of
Answered(r, response) == req[r].pc = "done" /\ req[r].resp = <<response>>
Returned(r) == Len(req[r].vres) = 3
ReturnedValid(r) ==
  /\ Returned(r)
  /\ ProofIdOf(req[r]) \notin { MissingId, "" }
  /\ ScoreOf(req[r]) \notin { NaN, Num(-1) }
Accepted(r) == ReturnedValid(r) /\ Answered(r, SuccessResponse(ScoreOf(req[r])))
Events(q) == { q.trace[i] : i \in DOMAIN q.trace }
ProofIds(pr) == { row.proofId : row \in pr }
StoredScores == { row.score : row \in scores } \cup { row.score : row \in proofs }
\* the count stored for S, 0 when there is no row
CountFor(sc, S) ==
  IF \E row \in sc : row.score = S
    THEN (CHOOSE row \in sc : row.score = S).count
    ELSE 0
ProofRowsFor(pr, S) == { row \in pr : row.score = S }

\* C1: whenever a handler can start or resume (the event loop is idle), the
\* count of every score equals the number of proof rows with that score
CountEqualsProofRows ==
  Idle => \A S \in StoredScores :
            CountFor(scores, S) = Cardinality(ProofRowsFor(proofs, S))

\* C2: no proofId is counted twice: at most one submission per proofId is
\* answered 201, no two proof rows share a proofId, at most one handler per
\* proofId writes the scores table, and no count exceeds the number of
\* distinct proofIds stored with that score
NoProofIdCountedTwice ==
  /\ \A r1, r2 \in Reqs :
       Accepted(r1) /\ Accepted(r2) /\ ProofIdOf(req[r1]) = ProofIdOf(req[r2])
         => r1 = r2
  /\ \A x, y \in proofs : x.proofId = y.proofId => x = y
  /\ \A r1, r2 \in Reqs :
       /\ Returned(r1) /\ Returned(r2)
       /\ ProofIdOf(req[r1]) = ProofIdOf(req[r2])
       /\ Events(req[r1]) \cap { "updateScore", "insertScore" } # {}
       /\ Events(req[r2]) \cap { "updateScore", "insertScore" } # {}
       => r1 = r2
  /\ \A row \in scores :
       row.count <= Cardinality(ProofIds(ProofRowsFor(proofs, row.score)))

\* two submissions of one proofId answered, one with 201 and one as a duplicate
SameProofIdTwice ==
  \E r1, r2 \in Reqs :
    /\ r1 # r2
    /\ Accepted(r1)
    /\ ReturnedValid(r2) /\ Answered(r2, DuplicateResponse)
    /\ ProofIdOf(req[r1]) = ProofIdOf(req[r2])

\* C7: after initDb on an empty store the scores table holds exactly the 17
\* milestones 2, 4, ..., 131072 with count 0 and the proofs table is empty
SeedLadder ==
  (phase = "up" /\ req = <<>> /\ boots = 0)
    => /\ scores = { [score |-> 2^k, count |-> 0] : k \in 1..17 }
       /\ Cardinality(scores) = 17
       /\ proofs = {}

\* the process has started on the empty store and no request has arrived
FreshlyInitialised == phase = "up" /\ req = <<>> /\ boots = 0 /\ scores # {}

StoreEvents ==
  { "selectProof", "insertProof", "selectScore", "updateScore", "insertScore",
    "storeError" }
ScoreWrites == { "updateScore", "insertScore" }
InHandler == { "checkDup", "insertProof", "selectScore", "writeScore", "respond" }

\* C3: a valid result whose identifier is already stored goes to the
\* existence check with the event loop held, and the check answers 400
\* 'Proof already submitted' with both tables as they were when the
\* verifier returned
DuplicateRejected ==
  [][\A r \in Reqs :
       /\ ( /\ req[r].pc = "await"
            /\ ReturnedValid(r)'
            /\ ProofIdOf(req'[r]) \in ProofIds(proofs) )
          => /\ req'[r].pc = "checkDup"
             /\ running' = r
             /\ proofs' = proofs /\ scores' = scores
       /\ ( /\ req[r].pc = "checkDup"
            /\ ProofIdOf(req[r]) \in ProofIds(req[r].pre.proofs) )
          => /\ Answered(r, DuplicateResponse)'
             /\ proofs' = req[r].pre.proofs
             /\ scores' = req[r].pre.scores]_vars

\* a stored identifier was submitted again and rejected as a duplicate
DuplicateSeen ==
  \E r \in Reqs :
    /\ Answered(r, DuplicateResponse)
    /\ ProofIdOf(req[r]) \in ProofIds(req[r].pre.proofs)

\* C4: a result with a missing identifier, the score -1 or a NaN score is
\* answered 400 'Invalid proof data' in the step the verifier returns, with
\* both tables unchanged, and its handler never touches the store
InvalidRejected ==
  [][\A r \in Reqs :
       /\ (req[r].pc = "await" /\ Returned(r)' /\ ~ReturnedValid(r)')
          => /\ Answered(r, InvalidResponse)'
             /\ proofs' = proofs /\ scores' = scores
       /\ (Returned(r) /\ ~ReturnedValid(r))
          => /\ Answered(r, InvalidResponse)
             /\ Events(req[r]) \cap StoreEvents = {}]_vars

\* an invalid result (here NaN) was rejected while a proof was stored
InvalidSeen ==
  \E r \in Reqs :
    /\ Answered(r, InvalidResponse)
    /\ ScoreOf(req[r]) = NaN
    /\ req[r].pre.proofs # {}

\* the scores table after one more proof of score n is counted
Counted(sc, n) ==
  IF \E row \in sc : row.score = n
    THEN { IF row.score = n THEN [score |-> n, count |-> row.count + 1] ELSE row :
             row \in sc }
    ELSE sc \cup { [score |-> n, count |-> 1] }

ProofRowsKept ==
  [][\A row \in proofs :
       \E kept \in proofs' :
         /\ kept.proofId = row.proofId
         /\ kept.proof = row.proof
         /\ kept.score = row.score]_vars

\* a proof row stored before a restart, read after it
RowReadAfterRestart ==
  /\ boots = 1
  /\ sent.route = "/proofs" /\ sent.rows # <<>>
  /\ \E r1, r2 \in Reqs : r1 < r2 /\ Accepted(r1) /\ req[r2].pc = "lost"

\* C8: the verifier is called, and has returned, before a handler touches
\* the store; an invalid result is answered 'Invalid proof data' without the
\* store being read; the proof row is inserted after the existence check
\* and before the scores table is written; 201 is sent after both writes
DecisionOrder ==
  \A r \in Reqs :
    LET tr == req[r].trace
    IN /\ Events(req[r]) \cap StoreEvents # {} => tr[1] = "verify" /\ ReturnedValid(r)
       /\ (Returned(r) /\ ~ReturnedValid(r))
            => Answered(r, InvalidResponse) /\ Events(req[r]) \cap StoreEvents = {}
       /\ \A i \in DOMAIN tr :
            tr[i] = "insertProof" => \E j \in 1..(i - 1) : tr[j] = "selectProof"
       /\ \A i \in DOMAIN tr :
            tr[i] \in ScoreWrites => \E j \in 1..(i - 1) : tr[j] = "insertProof"
       /\ \A i \in DOMAIN req[r].resp :
            req[r].resp[i][1] = 201
              => /\ tr[Len(tr)] = "respond"
                 /\ \E j, k \in 1..(Len(tr) - 1) :
                      j < k /\ tr[j] = "insertProof" /\ tr[k] \in ScoreWrites

\* a proof accepted, and an invalid result carrying its stored identifier
OrderSeen ==
  \E r1, r2 \in Reqs :
    /\ Accepted(r1)
    /\ Answered(r2, InvalidResponse)
    /\ ProofIdOf(req[r2]) = ProofIdOf(req[r1])
    /\ ProofIdOf(req[r2]) \in ProofIds(req[r2].pre.proofs)

OneOfConcurrentAccepted ==
  \A r1, r2 \in Reqs :
    ( /\ r1 \in req[r2].conc
      /\ ReturnedValid(r1) /\ ReturnedValid(r2)
      /\ req[r1].pc = "done" /\ req[r2].pc = "done"
      /\ ProofIdOf(req[r1]) = ProofIdOf(req[r2]) )
    => LET D == { r \in Reqs : /\ ReturnedValid(r)
                               /\ req[r].pc = "done"
                               /\ ProofIdOf(req[r]) = ProofIdOf(req[r1]) }
       IN /\ Cardinality({ r \in D : Accepted(r) }) = 1
          /\ \A r \in D : Accepted(r) \/ Answered(r, DuplicateResponse)
          /\ Cardinality(SelectProof(proofs, ProofIdOf(req[r1]))) = 1
          /\ Cardinality({ r \in D : Events(req[r]) \cap ScoreWrites # {} }) = 1

\* two submissions of one proofId suspended together, both answered
ConcurrentPairAnswered ==
  \E r1, r2 \in Reqs :
    /\ r1 \in req[r2].conc
    /\ ReturnedValid(r1) /\ ReturnedValid(r2)
    /\ ProofIdOf(req[r1]) = ProofIdOf(req[r2])
    /\ Accepted(r2) /\ Answered(r1, DuplicateResponse)

\* C11: a submission answered 400 or 500 leaves both tables as they were
\* before its handler ran (for a handler that resumed after the verifier:
\* as they were when the verifier returned)
NonSuccessLeavesTables ==
  [][\A r \in DOMAIN req' :
       ( /\ req'[r].pc = "done"
         /\ (r \in Reqs => req[r].pc # "done")
         /\ req'[r].resp # <<>>
         /\ req'[r].resp[Len(req'[r].resp)][1] # 201 )
       => LET before == IF r \in Reqs /\ req[r].pc \in InHandler
                          THEN req[r].pre
                          ELSE [proofs |-> proofs, scores |-> scores]
          IN proofs' = before.proofs /\ scores' = before.scores]_vars

\* C12: initDb on a store that holds rows changes no row of either table;
\* it seeds only a scores table with zero rows
InitDbIdempotent ==
  [][/\ boots' = boots + 1 => scores' = scores /\ proofs' = proofs
     /\ (phase = "down" /\ phase' = "up")
          => /\ scores = {}
             /\ scores' = { [score |-> 2^k, count |-> 0] : k \in 1..17 }
             /\ proofs' = proofs]_vars

\* the process restarted after a proof was counted
RestartedAfterAccept ==
  /\ boots = 1
  /\ \E r1, r2 \in Reqs : r1 < r2 /\ Accepted(r1) /\ req[r2].pc = "lost"
  /\ \E row \in scores : row.count = 1

\* C13: every count is an integer >= 0, and across every step each scores
\* row stays with a count at least as high
CountsNeverDecrease ==
  [][/\ \A row \in scores :
          /\ row.count \in Nat
          /\ \E kept \in scores' : kept.score = row.score /\ kept.count >= row.count
     /\ \A row \in scores' : row.count \in Nat]_vars

\* a count raised twice, and a restart after it
CountRaisedTwice ==
  /\ boots = 1
  /\ \E row \in scores : row.count = 2

\* C14: once the store is initialised, scores holds all 17 seed milestones,
\* and every row of another score has a count >= 1
SeedsKeptOthersCounted ==
  phase = "up" =>
    /\ \A k \in 1..17 : \E row \in scores : row.score = 2^k
    /\ \A row \in scores :
         row.score \notin { 2^k : k \in 1..17 } => row.count >= 1

\* a row of a score that is no milestone, next to the seeds
NonSeedRowStored ==
  /\ \E row \in scores : row.score = 3
  /\ \E row \in scores : row.score = 2 /\ row.count = 1

\* C15: no proofs row has a missing or empty proofId, no row of either table
\* has score -1 or a score that is no integer, and every stored score is a
\* milestone or the score the verifier returned, with a proofId, to a
\* submission that went on to write it
StoredValuesValid ==
  /\ \A row \in proofs :
       /\ ~Falsy(row.proofId)
       /\ row.score \in Int /\ row.score # -1
       /\ \E r \in Reqs :
            /\ ReturnedValid(r)
            /\ ProofIdOf(req[r]) = row.proofId /\ ScoreOf(req[r]) = Num(row.score)
            /\ "insertProof" \in Events(req[r])
  /\ \A row \in scores :
       /\ row.score \in Int /\ row.score # -1
       /\ \/ row.score \in { 2^k : k \in 1..17 }
          \/ \E r \in Reqs :
               /\ ReturnedValid(r)
               /\ ScoreOf(req[r]) = Num(row.score)
               /\ "insertScore" \in Events(req[r])

\* a proof stored, and a submission with score -1 turned away
StoredNextToSentinel ==
  /\ proofs # {}
  /\ \E r \in Reqs : /\ Returned(r) /\ ScoreOf(req[r]) = Num(-1) /\ ~Falsy(ProofIdOf(req[r]))
                     /\ Answered(r, InvalidResponse)

\* C16: a POST without a file is answered 400 'No proof file uploaded' in
\* the step that receives it, with no call of the verifier, no statement on
\* the store and both tables left as they were
NoFileAnswered ==
  [][\A r \in DOMAIN req' :
       (r \notin Reqs /\ req'[r].file = NoFile)
       => /\ req'[r].pc = "done"
          /\ req'[r].resp = <<NoFileResponse>>
          /\ req'[r].trace = <<"respond">>
          /\ req'[r].vres = <<>>
          /\ proofs' = proofs /\ scores' = scores]_vars

\* a POST without a file answered while the store holds a proof
NoFileSeen ==
  /\ proofs # {}
  /\ \E r \in Reqs : req[r].file = NoFile /\ Answered(r, NoFileResponse)

\* C17: a submission never has more than one response, has exactly one,
\* of status 201, 400 or 500, when its handler has ended and none before,
\* and every submission received is eventually answered
EachAnsweredOnce ==
  /\ [](\A r \in Reqs :
          /\ Len(req[r].resp) <= 1
          /\ req[r].pc = "done" <=> Len(req[r].resp) = 1
          /\ \A i \in DOMAIN req[r].resp : req[r].resp[i][1] \in {201, 400, 500})
  /\ \A r \in 1..MaxReq :
       (r \in Reqs) ~> (r \in Reqs /\ req[r].pc = "done" /\ Len(req[r].resp) = 1)

\* one submission answered 201, the other 500 after a failed store statement
AnsweredBothWays ==
  \E r1, r2 \in Reqs :
    /\ Accepted(r1)
    /\ Answered(r2, FailureResponse) /\ "storeError" \in Events(req[r2])

\* C18: the body of GET /scores holds every scores row once, in strictly
\* descending score; the body of GET /proofs holds every proofs row once, in
\* non-increasing created_at; a read step changes no row of either table
ReadsArePure ==
  [][LET body == sent'.rows
         Rows == { body[i] : i \in DOMAIN body }
     IN /\ sent'.route # "" => scores' = scores /\ proofs' = proofs
        /\ sent'.route = "/scores" =>
             /\ Rows = scores /\ Len(body) = Cardinality(scores)
             /\ \A i, j \in DOMAIN body : i < j => body[i].score > body[j].score
        /\ sent'.route = "/proofs" =>
             /\ Rows = proofs /\ Len(body) = Cardinality(proofs)
             /\ \A i, j \in DOMAIN body :
                  i < j => body[i].created_at >= body[j].created_at]_vars

\* GET /proofs answered with two proofs of different seconds, the scores
\* table holding a row next to the seeds
TwoProofsRead ==
  /\ sent.route = "/proofs"
  /\ Len(sent.rows) = 2
  /\ sent.rows[1].created_at > sent.rows[2].created_at
  /\ Cardinality(scores) = 18

====
